---------------------------- MODULE Spec2Model ----------------------------
(* A model of the legal-text search engine of csv_text_search.py:          *)
(* corpus assembly (TextSearcher.__init__), the context extractor          *)
(* (get_context), the matcher (search_text) and the aggregator             *)
(* (search_all_queries).                                                   *)
(*                                                                         *)
(* Strings are sequences of one-character strings, so that lower(),        *)
(* split(), strip(), re.escape() and the regular-expression search are     *)
(* computed character by character, as Python computes them.  Offsets      *)
(* into strings (char_pos, start_idx, end_idx) are 0-based as in the       *)
(* source; s[i+1] is the character at Python offset i.                     *)
EXTENDS Integers, Sequences, FiniteSets, TLC

VARIABLES
    pc,         \* which operation has completed: "new", "constructed", ...
    df_all,     \* self.df_all: the full dataset, a sequence of rows
    law,        \* self.law: the law-text table, a sequence of rows
    queries,    \* self.queries: [columns, rows]
    merged,     \* __init__'s local: the left merge of df_all and law
    dataset,    \* self.dataset: the assembled corpus
    args,       \* the arguments of the call made last
    locals,     \* the local variables of that call, as it returned
    ret,        \* the value it returned
    raised,     \* the exception it raised instead, if any
    uploaded_file,  \* the browsing page: the file chosen in the uploader
    manual_path,    \* the path typed in the sidebar
    session_state,  \* st.session_state
    df,             \* the dataset the last run of the page loaded
    screen          \* what the last run of the page showed

searcher_vars == <<pc, df_all, law, queries, merged, dataset, args, locals,
                   ret, raised>>

app_vars == <<uploaded_file, manual_path, session_state, df, screen>>

vars == <<searcher_vars, app_vars>>

(***************************************************************************)
(* Values                                                                  *)
(***************************************************************************)
\* pandas' missing value (NaN) and Python's None: values that are no string
\* (a string is a sequence of single characters)
NaN == <<"NaN">>
None == <<"None">>

\* the browsing page before a file is chosen: no file, no dataset, nothing
\* shown, an empty session state
NoFile == ""
NoData == [none |-> "df"]
NoScreen == [none |-> "screen"]
NoSession == [k \in {} |-> None]

NoApp ==
    /\ uploaded_file = NoFile
    /\ manual_path = ""
    /\ session_state = NoSession
    /\ df = NoData
    /\ screen = NoScreen

(***************************************************************************)
(* Characters and Python's str methods                                     *)
(***************************************************************************)
\* The characters of the model's strings, in code-point order.
CodePoints == <<" ", "(", ")", "*", "-", ".", "0", "1", "2", "3", "4",
                "5", "6", "7", "8", "9", "?", "A", "B", "D", "E", "F",
                "G", "H", "L", "M", "N", "R", "S", "T", "\\", "a", "b",
                "c", "d", "e", "f", "g", "h", "i", "l", "m", "n", "o",
                "r", "s", "t", "u", "x", "y", "|">>

\* ord(c), as far as the order of the model's characters goes
OrdOf == [c \in {CodePoints[i] : i \in 1..Len(CodePoints)} |->
            CHOOSE i \in 1..Len(CodePoints) : CodePoints[i] = c]

Ord(c) == OrdOf[c]

UpperCase == <<"A", "B", "D", "E", "F", "G", "H", "L", "M", "N", "R", "S", "T">>
LowerCase == <<"a", "b", "d", "e", "f", "g", "h", "l", "m", "n", "r", "s", "t">>

\* str.isspace() of one character
IsSpace(c) == c = " "

Digits == <<"0", "1", "2", "3", "4", "5", "6", "7", "8", "9">>

\* the \w characters of the re module: the letters and the digits (_ is not
\* among the model's characters)
WordChars == {CodePoints[i] : i \in {j \in 1..Len(CodePoints) :
                 /\ j >= (CHOOSE k \in 1..Len(CodePoints) : CodePoints[k] = "A")
                 /\ CodePoints[j] \notin {"\\", "|"}}}
             \cup {Digits[i] : i \in 1..Len(Digits)}

IsWordChar(c) == c \in WordChars

\* str.lower() of one character
LowerOf == [c \in {CodePoints[i] : i \in 1..Len(CodePoints)} |->
              IF \E i \in 1..Len(UpperCase) : UpperCase[i] = c
              THEN LowerCase[CHOOSE i \in 1..Len(UpperCase) : UpperCase[i] = c]
              ELSE c]

LowerChar(c) == LowerOf[c]

\* str.lower()
Lower(s) == [i \in 1..Len(s) |-> LowerChar(s[i])]

\* s[:n] for 0 <= n
Prefix(s, n) == SubSeq(s, 1, IF n < Len(s) THEN n ELSE Len(s))

\* str.split(): the maximal runs of non-whitespace characters
RECURSIVE SplitFrom(_, _, _)
SplitFrom(s, i, cur) ==
    IF i > Len(s)
    THEN IF cur = <<>> THEN <<>> ELSE <<cur>>
    ELSE IF IsSpace(s[i])
         THEN (IF cur = <<>> THEN <<>> ELSE <<cur>>) \o SplitFrom(s, i + 1, <<>>)
         ELSE SplitFrom(s, i + 1, Append(cur, s[i]))

Split(s) == SplitFrom(s, 1, <<>>)

\* str.strip(): without leading and trailing whitespace
Strip(s) ==
    LET nonsp == {i \in 1..Len(s) : ~IsSpace(s[i])}
    IN  IF nonsp = {} THEN <<>>
        ELSE SubSeq(s, CHOOSE i \in nonsp : \A j \in nonsp : i <= j,
                       CHOOSE i \in nonsp : \A j \in nonsp : j <= i)

\* sep.join(parts)
RECURSIVE Join(_, _)
Join(sep, parts) ==
    IF parts = <<>> THEN <<>>
    ELSE IF Len(parts) = 1 THEN parts[1]
    ELSE parts[1] \o sep \o Join(sep, Tail(parts))

\* Python's order on strings: by code point, a proper prefix first
RECURSIVE StrLess(_, _)
StrLess(s, t) ==
    IF t = <<>> THEN FALSE
    ELSE IF s = <<>> THEN TRUE
    ELSE IF s[1] = t[1] THEN StrLess(Tail(s), Tail(t))
    ELSE Ord(s[1]) < Ord(t[1])

(***************************************************************************)
(* The re module, for the patterns the program and its tests use:          *)
(* literal characters, \-escapes, \b, the wildcard ., groups ( ) and the   *)
(* quantifier ?.                                                           *)
(***************************************************************************)
\* the characters re.escape() puts a backslash before
SpecialChars == {" ", "(", ")", "*", "-", ".", "?", "\\", "|"}

\* re.escape()
RECURSIVE Escape(_)
Escape(s) ==
    IF s = <<>> THEN <<>>
    ELSE (IF s[1] \in SpecialChars THEN <<"\\", s[1]>> ELSE <<s[1]>>)
         \o Escape(Tail(s))

Tok(k, c, body) == [k |-> k, c |-> c, body |-> body]

\* The compiled form of pattern p from index i up to the end of p or an
\* unmatched ")": [toks, next].
RECURSIVE ParseSeq(_, _)
ParseSeq(p, i) ==
    IF i > Len(p) \/ p[i] = ")"
    THEN [toks |-> <<>>, next |-> i]
    ELSE
      LET inner == ParseSeq(p, i + 1)
          atom ==
            IF p[i] = "\\"
            THEN [tok |-> IF p[i + 1] = "b" THEN Tok("wb", "", <<>>)
                          ELSE Tok("lit", p[i + 1], <<>>),
                  next |-> i + 2]
            ELSE IF p[i] = "("
            THEN [tok |-> Tok("grp", "", inner.toks), next |-> inner.next + 1]
            ELSE IF p[i] = "."
            THEN [tok |-> Tok("any", "", <<>>), next |-> i + 1]
            ELSE [tok |-> Tok("lit", p[i], <<>>), next |-> i + 1]
          opt == atom.next <= Len(p) /\ p[atom.next] = "?"
          tok == IF opt THEN Tok("opt", "", <<atom.tok>>) ELSE atom.tok
          rest == ParseSeq(p, IF opt THEN atom.next + 1 ELSE atom.next)
      IN  [toks |-> <<tok>> \o rest.toks, next |-> rest.next]

\* re.compile()
Compile(p) == ParseSeq(p, 1).toks

\* \b at offset pos of s: exactly one of the characters before and after
\* the offset is a word character
WordBoundary(s, pos) ==
    (pos >= 1 /\ pos <= Len(s) /\ IsWordChar(s[pos]))
      # (pos + 1 <= Len(s) /\ IsWordChar(s[pos + 1]))

\* The offsets at which a match of toks[i..] that starts at offset pos of s
\* can end, in the order the backtracking matcher tries them.
RECURSIVE EndsFrom(_, _, _, _)
RECURSIVE EndsAll(_, _, _, _)
EndsFrom(toks, i, s, pos) ==
    IF i > Len(toks) THEN <<pos>>
    ELSE
      LET t == toks[i]
      IN  CASE t.k = "lit" ->
                 IF pos < Len(s) /\ s[pos + 1] = t.c
                 THEN EndsFrom(toks, i + 1, s, pos + 1) ELSE <<>>
            [] t.k = "any" ->
                 IF pos < Len(s) THEN EndsFrom(toks, i + 1, s, pos + 1)
                 ELSE <<>>
            [] t.k = "wb" ->
                 IF WordBoundary(s, pos) THEN EndsFrom(toks, i + 1, s, pos)
                 ELSE <<>>
            [] t.k = "grp" ->
                 EndsAll(toks, i + 1, s, EndsFrom(t.body, 1, s, pos))
            [] t.k = "opt" ->
                 EndsAll(toks, i + 1, s, EndsFrom(t.body, 1, s, pos))
                   \o EndsFrom(toks, i + 1, s, pos)

EndsAll(toks, i, s, starts) ==
    IF starts = <<>> THEN <<>>
    ELSE EndsFrom(toks, i, s, starts[1]) \o EndsAll(toks, i, s, Tail(starts))

Ends(toks, s, pos) == EndsFrom(toks, 1, s, pos)

\* re.finditer(p, s): the matches [start, end), leftmost first and not
\* overlapping; after an empty match the scan moves on by one character.
RECURSIVE FindFrom(_, _, _)
FindFrom(toks, s, pos) ==
    IF pos > Len(s) THEN <<>>
    ELSE LET e == Ends(toks, s, pos)
         IN  IF e = <<>> THEN FindFrom(toks, s, pos + 1)
             ELSE <<[start |-> pos, end |-> e[1]]>>
                  \o FindFrom(toks, s, IF e[1] > pos THEN e[1] ELSE pos + 1)

re_finditer(p, s) == FindFrom(Compile(p), s, 0)

\* re.search(p, s) is not None
re_search(p, s) ==
    LET toks == Compile(p)
    IN  \E pos \in 0..Len(s) : Ends(toks, s, pos) # <<>>

(***************************************************************************)
(* get_context                                                             *)
(***************************************************************************)
\* r'\b' + re.escape(query.lower()) + r'\b'
WordPattern(query) == <<"\\", "b">> \o Escape(Lower(query)) \o <<"\\", "b">>

Max(a, b) == IF a >= b THEN a ELSE b
Min(a, b) == IF a <= b THEN a ELSE b

Ellipsis == <<".", ".", ".">>
Emph == <<"*", "*">>
Separator == <<" ", "|", " ">>

\* word_pos = max(0, len(text[:char_pos].split()) - 1)
WordPos(text, char_pos) == Max(0, Len(Split(Prefix(text, char_pos))) - 1)

\* Highlight testing the word as it is written
HighlightCased(pattern, word) ==
    IF re_search(pattern, word) THEN Emph \o word \o Emph ELSE word

\* the highlighted form of one word of the window
Highlight(pattern, word) ==
    IF re_search(pattern, Lower(word)) THEN Emph \o word \o Emph ELSE word

\* ContextOf taking the window to reach the end of the text one word early:
\* no ellipsis after a window that stops before the last word only
ContextOfEndEarly(text, pattern, match, context_words) ==
    LET words == Split(text)
        char_pos == match.start
        word_pos == WordPos(text, char_pos)
        start_idx == Max(0, word_pos - context_words)
        end_idx == Min(Len(words), word_pos + context_words + 1)
        context_words_list == SubSeq(words, start_idx + 1, end_idx)
        highlighted_context ==
            [i \in 1..Len(context_words_list) |->
                Highlight(pattern, context_words_list[i])]
        joined == Join(<<" ">>, highlighted_context)
        pre == IF start_idx > 0 THEN Ellipsis \o joined ELSE joined
        context == IF end_idx < Len(words) - 1 THEN pre \o Ellipsis ELSE pre
    IN  [char_pos |-> char_pos, word_pos |-> word_pos,
         start_idx |-> start_idx, end_idx |-> end_idx, context |-> context]

\* One pass of the loop over the matches: the locals of the pass and the
\* context it appends.
ContextOf(text, pattern, match, context_words) ==
    LET words == Split(text)
        char_pos == match.start
        word_pos == WordPos(text, char_pos)
        start_idx == Max(0, word_pos - context_words)
        end_idx == Min(Len(words), word_pos + context_words + 1)
        context_words_list == SubSeq(words, start_idx + 1, end_idx)
        highlighted_context ==
            [i \in 1..Len(context_words_list) |->
                Highlight(pattern, context_words_list[i])]
        joined == Join(<<" ">>, highlighted_context)
        pre == IF start_idx > 0 THEN Ellipsis \o joined ELSE joined
        context == IF end_idx < Len(words) THEN pre \o Ellipsis ELSE pre
    IN  [char_pos |-> char_pos, word_pos |-> word_pos,
         start_idx |-> start_idx, end_idx |-> end_idx, context |-> context]

\* ContextPasses looking for the matches in the text as it is written
ContextPassesCased(text, query, context_words) ==
    LET pattern == WordPattern(query)
        matches == re_finditer(pattern, text)
    IN  [i \in 1..Len(matches) |->
            ContextOf(text, pattern, matches[i], context_words)]

\* The passes of get_context's loop, one per match.
ContextPasses(text, query, context_words) ==
    LET pattern == WordPattern(query)
        matches == re_finditer(pattern, Lower(text))
    IN  [i \in 1..Len(matches) |->
            ContextOf(text, pattern, matches[i], context_words)]

\* get_context returning after the first pass of its loop
get_context_first(text, query, context_words) ==
    LET passes == ContextPasses(text, query, context_words)
    IN  IF passes = <<>> THEN <<>> ELSE passes[1].context

\* get_context(text, query, context_words)
get_context(text, query, context_words) ==
    LET passes == ContextPasses(text, query, context_words)
    IN  IF passes = <<>> THEN <<>>
        ELSE Join(Separator, [i \in 1..Len(passes) |-> passes[i].context])

(***************************************************************************)
(* TextSearcher.__init__: the corpus                                       *)
(*                                                                         *)
(* A row of df_all is [itemid, languageisocode] (the columns appno,        *)
(* docname, doctype, article, violation and year are carried along         *)
(* unchanged and are left out), a row of law is [itemid, THE_LAW], and a   *)
(* row of merged and of dataset has the three fields.                      *)
(***************************************************************************)
\* pd.isna()
isna(v) == v = NaN

\* the rows a left merge on itemid makes of one row of the left table:
\* one per row of the right table with the same itemid, in the right
\* table's order, and one with a missing THE_LAW when there is none
JoinRow(left_row, right) ==
    LET same == SelectSeq(right, LAMBDA r : r.itemid = left_row.itemid)
    IN  IF same = <<>>
        THEN <<[itemid |-> left_row.itemid,
                languageisocode |-> left_row.languageisocode,
                THE_LAW |-> NaN]>>
        ELSE [i \in 1..Len(same) |->
                [itemid |-> left_row.itemid,
                 languageisocode |-> left_row.languageisocode,
                 THE_LAW |-> same[i].THE_LAW]]

\* left.merge(right, how='left', on='itemid'): the left table's order
RECURSIVE Merge(_, _)
Merge(left, right) ==
    IF left = <<>> THEN <<>>
    ELSE JoinRow(left[1], right) \o Merge(Tail(left), right)

\* DropMissingLaw without its filter: the rows with a missing law text stay
KeepMissingLaw(table) == table

\* merged.loc[~pd.isna(merged['THE_LAW'])]
DropMissingLaw(table) == SelectSeq(table, LAMBDA r : ~isna(r.THE_LAW))

\* columns.str.strip()
StripColumns(columns) == [i \in 1..Len(columns) |-> Strip(columns[i])]

(***************************************************************************)
(* search_text                                                             *)
(***************************************************************************)
\* a Python value that is true in a condition: not None, not the empty string
Truthy(v) == v # None /\ v # <<>>

\* SearchData comparing the language codes as they are written
SearchDataCaseSensitive(corpus, language_filter) ==
    IF Truthy(language_filter)
    THEN SelectSeq(corpus, LAMBDA r : r.languageisocode = language_filter)
    ELSE corpus

\* search_data: the rows of the corpus that pass the language filter
SearchData(corpus, language_filter) ==
    IF Truthy(language_filter)
    THEN SelectSeq(corpus, LAMBDA r :
            Lower(r.languageisocode) = Lower(language_filter))
    ELSE corpus

\* SearchRow testing the term without the word boundaries around it
SearchRowSubstring(row, query_word, pattern, context_words) ==
    IF isna(row.THE_LAW) THEN <<>>
    ELSE IF re_search(Escape(Lower(query_word)), Lower(row.THE_LAW))
    THEN <<[itemid |-> row.itemid,
            language |-> row.languageisocode,
            query_word |-> query_word,
            context |-> get_context(row.THE_LAW, query_word, context_words),
            THE_LAW |-> row.THE_LAW]>>
    ELSE <<>>

\* the body of the loop over search_data: the records one row contributes
SearchRow(row, query_word, pattern, context_words) ==
    IF isna(row.THE_LAW) THEN <<>>
    ELSE IF re_search(pattern, Lower(row.THE_LAW))
    THEN <<[itemid |-> row.itemid,
            language |-> row.languageisocode,
            query_word |-> query_word,
            context |-> get_context(row.THE_LAW, query_word, context_words),
            THE_LAW |-> row.THE_LAW]>>
    ELSE <<>>

RECURSIVE SearchRows(_, _, _, _)
SearchRows(rows, query_word, pattern, context_words) ==
    IF rows = <<>> THEN <<>>
    ELSE SearchRow(rows[1], query_word, pattern, context_words)
         \o SearchRows(Tail(rows), query_word, pattern, context_words)

\* search_text(query_word, language_filter, context_words)
search_text(corpus, query_word, language_filter, context_words) ==
    SearchRows(SearchData(corpus, language_filter), query_word,
               WordPattern(query_word), context_words)

(***************************************************************************)
(* search_all_queries                                                      *)
(*                                                                         *)
(* queries is [columns, rows]: the headers, and per row one cell per       *)
(* column, a string or NaN.                                                *)
(***************************************************************************)
S_english == <<"e", "n", "g", "l", "i", "s", "h">>
S_french == <<"f", "r", "e", "n", "c", "h">>
S_en == <<"e", "n">>
S_fr == <<"f", "r">>
S_eng == <<"e", "n", "g">>
S_fre == <<"f", "r", "e">>

\* IsLanguageColumn comparing the header as it is written
IsLanguageColumnExact(col) == col \in {S_english, S_french, S_en, S_fr}

\* col.lower() in ['english', 'french', 'en', 'fr']
IsLanguageColumn(col) == Lower(col) \in {S_english, S_french, S_en, S_fr}

\* query_columns: the language columns, or every column when there is none
QueryColumns(columns) ==
    LET found == SelectSeq(columns, IsLanguageColumn)
    IN  IF found = <<>> THEN columns ELSE found

\* LanguageFilterOf without the mapping: no column restricts the language
NoLanguageFilter(col) == None

\* LanguageFilterOf without its second branch: only the English columns
\* restrict the language
LanguageFilterEnglishOnly(col) ==
    IF Lower(col) \in {S_english, S_en} THEN S_eng ELSE None

\* language_filter for the terms of column col
LanguageFilterOf(col) ==
    IF Lower(col) \in {S_english, S_en} THEN S_eng
    ELSE IF Lower(col) \in {S_french, S_fr} THEN S_fre
    ELSE None

\* query_row[col]
Cell(q, query_row, col) ==
    query_row[CHOOSE i \in 1..Len(q.columns) : q.columns[i] = col]

\* the body of the inner loop: the records one cell contributes
SearchCell(corpus, q, query_row, col, context_words) ==
    IF isna(Cell(q, query_row, col)) THEN <<>>
    ELSE LET query_word == Strip(Cell(q, query_row, col))
             results == search_text(corpus, query_word, LanguageFilterOf(col),
                                    context_words)
         IN  IF query_word = <<>> THEN <<>>
             ELSE [i \in 1..Len(results) |->
                     [itemid |-> results[i].itemid,
                      language |-> results[i].language,
                      query_word |-> results[i].query_word,
                      context |-> results[i].context,
                      THE_LAW |-> results[i].THE_LAW,
                      query_language |-> col]]

RECURSIVE SearchCols(_, _, _, _, _)
SearchCols(corpus, q, query_row, cols, context_words) ==
    IF cols = <<>> THEN <<>>
    ELSE SearchCell(corpus, q, query_row, cols[1], context_words)
         \o SearchCols(corpus, q, query_row, Tail(cols), context_words)

\* all_results: the loop over the query table's rows
RECURSIVE AllResults(_, _, _, _, _)
AllResults(corpus, q, rows, cols, context_words) ==
    IF rows = <<>> THEN <<>>
    ELSE SearchCols(corpus, q, rows[1], cols, context_words)
         \o AllResults(corpus, q, Tail(rows), cols, context_words)

\* the order of groupby's keys (itemid, query_word)
KeyLess(a, b) ==
    \/ a.itemid < b.itemid
    \/ a.itemid = b.itemid /\ StrLess(a.query_word, b.query_word)

RECURSIVE SortKeys(_)
SortKeys(keys) ==
    IF keys = {} THEN <<>>
    ELSE LET least == CHOOSE k \in keys :
                        \A other \in keys \ {k} : KeyLess(k, other)
         IN  <<least>> \o SortKeys(keys \ {least})

\* GroupedResult taking the group's last record for its representative
GroupedResultLast(key, group) ==
    LET contexts == [i \in 1..Len(group) |-> group[i].context]
    IN  [itemid |-> key.itemid,
         language |-> group[Len(group)].language,
         query_word |-> key.query_word,
         query_language |-> group[Len(group)].query_language,
         combined_context |->
             Join(Separator, SelectSeq(contexts, LAMBDA ctx : ctx # <<>>)),
         match_count |-> Len(group),
         THE_LAW |-> group[Len(group)].THE_LAW]

\* the summary record of one group
GroupedResult(key, group) ==
    LET contexts == [i \in 1..Len(group) |-> group[i].context]
    IN  [itemid |-> key.itemid,
         language |-> group[1].language,
         query_word |-> key.query_word,
         query_language |-> group[1].query_language,
         combined_context |->
             Join(Separator, SelectSeq(contexts, LAMBDA ctx : ctx # <<>>)),
         match_count |-> Len(group),
         THE_LAW |-> group[1].THE_LAW]

\* how a call ends: with a value, or with an exception
NoException == "none"
KeyError == "KeyError"
Returns(value) == [value |-> value, raised |-> NoException]
Raises(exception) == [value |-> None, raised |-> exception]

\* GroupBy grouping on itemid alone: the first record's query_word stands
\* for the group
GroupByItemid(all_results) ==
    IF all_results = <<>> THEN Raises(KeyError)
    ELSE
      LET First(itemid) ==
              SelectSeq(all_results, LAMBDA r : r.itemid = itemid)[1]
          keys == SortKeys({[itemid |-> all_results[i].itemid,
                             query_word |->
                                 First(all_results[i].itemid).query_word] :
                            i \in 1..Len(all_results)})
      IN  Returns([g \in 1..Len(keys) |->
             GroupedResult(keys[g],
                 SelectSeq(all_results, LAMBDA r :
                     r.itemid = keys[g].itemid))])

\* the loop over results_df.groupby(['itemid', 'query_word']): the groups
\* in key order, each in the order of results_df.  A frame made of no
\* record has no column itemid: groupby raises KeyError.
GroupBy(all_results) ==
    IF all_results = <<>> THEN Raises(KeyError)
    ELSE
      LET keys == SortKeys({[itemid |-> all_results[i].itemid,
                             query_word |-> all_results[i].query_word] :
                            i \in 1..Len(all_results)})
      IN  Returns([g \in 1..Len(keys) |->
             GroupedResult(keys[g],
                 SelectSeq(all_results, LAMBDA r :
                     r.itemid = keys[g].itemid
                       /\ r.query_word = keys[g].query_word))])

\* Summarise without the early return for no record
SummariseUnguarded(all_results) == GroupBy(all_results)

\* the end of search_all_queries, from the records it collected: the empty
\* frame when there is none, the grouped records otherwise
Summarise(all_results) ==
    IF all_results = <<>> THEN Returns(<<>>) ELSE GroupBy(all_results)

(***************************************************************************)
(* Bounded strings                                                         *)
(***************************************************************************)
RECURSIVE StringsOfLen(_, _)
StringsOfLen(chars, n) ==
    IF n = 0 THEN {<<>>}
    ELSE {Append(s, c) : s \in StringsOfLen(chars, n - 1), c \in chars}

StringsUpTo(chars, n) == UNION {StringsOfLen(chars, k) : k \in 0..n}

(***************************************************************************)
(* The context extractor on its own                                        *)
(***************************************************************************)
MaxTextLen == 5
MaxTermLen == 2
MaxRadius == 1

\* a word character in both cases, whitespace and punctuation
ContextChars == {"a", "A", " ", "."}

\* get_context reads nothing of the searcher: there are no tables
NoTables ==
    /\ df_all = <<>>
    /\ law = <<>>
    /\ queries = [columns |-> <<>>, rows |-> <<>>]
    /\ merged = <<>>
    /\ dataset = <<>>

\* a term of two tokens
Q_a_a == <<"a", " ", "a">>

\* a text of six words, and its fourth word as the term
T_a_b_c_match_d_e ==
    <<"a", " ", "b", " ", "c", " ", "m", "a", "t", "c", "h", " ", "d", " ",
      "e">>
W_match == <<"m", "a", "t", "c", "h">>

\* context_words: int = 10
ContextWordsDefault == 10

InitContext ==
    /\ pc = "input"
    /\ NoTables
    /\ \/ \E text \in StringsUpTo(ContextChars, MaxTextLen),
             query \in (StringsUpTo(ContextChars, MaxTermLen) \ {<<>>})
                          \cup {Q_a_a},
             context_words \in 0..MaxRadius :
             args = [text |-> text, query |-> query,
                     context_words |-> context_words]
       \/ \E context_words \in (0..MaxRadius) \cup {ContextWordsDefault} :
             args = [text |-> T_a_b_c_match_d_e, query |-> W_match,
                     context_words |-> context_words]
    /\ locals = <<>>
    /\ ret = None
    /\ raised = NoException
    /\ NoApp

GetContext ==
    /\ pc = "input"
    /\ pc' = "get_context"
    /\ locals' = ContextPasses(args.text, args.query, args.context_words)
    /\ ret' = get_context(args.text, args.query, args.context_words)
    /\ UNCHANGED <<df_all, law, queries, merged, dataset, args, raised>>
    /\ UNCHANGED app_vars

NextContext == GetContext

SpecContext == InitContext /\ [][NextContext]_vars

(***************************************************************************)
(* Bounded tables                                                          *)
(***************************************************************************)
MaxDatasetRows == 2
MaxLawRows == 2
MaxQueryRows == 2

SeqsUpTo(S, n) == UNION {[1..k -> S] : k \in 0..n}

DataRow(itemid, lang) == [itemid |-> itemid, languageisocode |-> lang]
LawRow(itemid, text) == [itemid |-> itemid, THE_LAW |-> text]

DatasetTables(rows) == SeqsUpTo(rows, MaxDatasetRows)

LawTables(ids, texts) ==
    SeqsUpTo({LawRow(i, t) : i \in ids, t \in texts}, MaxLawRows)

\* the query tables with the given headers
QueryTables(columns, cells) ==
    [columns : {columns},
     rows : SeqsUpTo([1..Len(columns) -> cells], MaxQueryRows)]

S_FRE == <<"F", "R", "E">>

NoCall ==
    /\ args = None
    /\ locals = None
    /\ ret = None
    /\ raised = NoException

(***************************************************************************)
(* The operations                                                          *)
(***************************************************************************)
\* TextSearcher(dataset_path, law_path, queries_path): the tables are those
\* read_csv returned (law after the nrows cut).
Construct ==
    /\ pc = "new"
    /\ pc' = "constructed"
    /\ merged' = Merge(df_all, law)
    /\ dataset' = DropMissingLaw(Merge(df_all, law))
    /\ queries' = [queries EXCEPT !.columns = StripColumns(queries.columns)]
    /\ UNCHANGED <<df_all, law, args, locals, ret, raised>>
    /\ UNCHANGED app_vars

\* searcher.search_text(query_word, language_filter, context_words); the
\* call leaves the searcher as it was.
SearchTextCall(query_word, language_filter, context_words) ==
    /\ pc = "constructed"
    /\ pc' = "search_text"
    /\ args' = [query_word |-> query_word,
                language_filter |-> language_filter,
                context_words |-> context_words]
    /\ locals' = [search_data |-> SearchData(dataset, language_filter)]
    /\ ret' = search_text(dataset, query_word, language_filter, context_words)
    /\ UNCHANGED <<df_all, law, queries, merged, dataset, raised>>
    /\ UNCHANGED app_vars

\* searcher.search_all_queries(context_words)
SearchAllQueriesCall(context_words) ==
    /\ pc = "constructed"
    /\ pc' = "search_all_queries"
    /\ args' = [context_words |-> context_words]
    /\ locals' = [query_columns |-> QueryColumns(queries.columns),
                  all_results |->
                      AllResults(dataset, queries, queries.rows,
                                 QueryColumns(queries.columns), context_words)]
    /\ ret' = Summarise(locals'.all_results).value
    /\ raised' = Summarise(locals'.all_results).raised
    /\ UNCHANGED <<df_all, law, queries, merged, dataset>>
    /\ UNCHANGED app_vars

(***************************************************************************)
(* Corpus assembly on its own                                              *)
(***************************************************************************)
T_a == <<"a">>
T_b_a == <<"b", " ", "a">>

InitCorpus ==
    /\ pc = "new"
    /\ df_all \in DatasetTables({DataRow(i, l) : i \in {1, 2},
                                                 l \in {S_eng, S_FRE}})
    /\ law \in LawTables({1, 2, 3}, {NaN, T_a, T_b_a})
    /\ queries \in QueryTables(<<<<" ", "E", "N", " ">>>>, {T_a})
    /\ merged = None
    /\ dataset = None
    /\ NoCall
    /\ NoApp

NextCorpus == Construct

SpecCorpus == InitCorpus /\ [][NextCorpus]_vars

(***************************************************************************)
(* The matcher                                                             *)
(***************************************************************************)
T_a_b_a == <<"a", " ", "b", " ", "a">>
T_ab_B == <<"a", "b", " ", "B", ".">>
Q_B == <<"B">>

InitMatch ==
    /\ pc = "new"
    /\ df_all \in DatasetTables({DataRow(1, S_eng), DataRow(1, S_fre),
                                 DataRow(2, S_FRE), DataRow(2, S_eng)})
    /\ law \in LawTables({1, 2}, {T_a_b_a, T_ab_B})
    /\ queries = [columns |-> <<>>, rows |-> <<>>]
    /\ merged = None
    /\ dataset = None
    /\ NoCall
    /\ NoApp

SearchText ==
    \E query_word \in {T_a, Q_B},
       language_filter \in {None, <<>>, S_FRE, S_eng, S_fr},
       context_words \in 0..MaxRadius :
        SearchTextCall(query_word, language_filter, context_words)

NextMatch == Construct \/ SearchText

SpecMatch == InitMatch /\ [][NextMatch]_vars

(***************************************************************************)
(* The matcher on the query of test_regex.py and multiword.py              *)
(***************************************************************************)
W_moyens == <<"m", "o", "y", "e", "n", "s">>
W_de == <<"d", "e">>
W_subsistance == <<"s", "u", "b", "s", "i", "s", "t", "a", "n", "c", "e">>

\* '(moyens de)? subsistance'
Q_moyens_de_subsistance ==
    <<"(">> \o W_moyens \o <<" ">> \o W_de \o <<")", "?", " ">>
            \o W_subsistance

\* 'la subsistance'
T_la_subsistance == <<"l", "a", " ">> \o W_subsistance
\* 'Moyens de subsistance.'
T_Moyens_de_subsistance ==
    <<"M", "o", "y", "e", "n", "s", " ">> \o W_de \o <<" ">>
        \o W_subsistance \o <<".">>
\* 'x(moyens de)? subsistance': the query's characters themselves
T_literal == <<"x">> \o Q_moyens_de_subsistance
\* 'les subsistances'
T_les_subsistances == <<"l", "e", "s", " ">> \o W_subsistance \o <<"s">>

InitRegex ==
    /\ pc = "new"
    /\ df_all \in DatasetTables({DataRow(1, S_fre), DataRow(2, S_eng)})
    /\ law \in LawTables({1, 2}, {T_la_subsistance, T_Moyens_de_subsistance,
                                  T_literal, T_les_subsistances})
    /\ queries = [columns |-> <<>>, rows |-> <<>>]
    /\ merged = None
    /\ dataset = None
    /\ NoCall
    /\ NoApp

SearchRegex ==
    \E query_word \in {Q_moyens_de_subsistance, W_subsistance},
       language_filter \in {S_FRE, None} :
        SearchTextCall(query_word, language_filter, ContextWordsDefault)

NextRegex == Construct \/ SearchRegex

SpecRegex == InitRegex /\ [][NextRegex]_vars

(***************************************************************************)
(* The aggregator                                                          *)
(***************************************************************************)
H_English == <<"E", "n", "g", "l", "i", "s", "h">>
H_French == <<"F", "r", "e", "n", "c", "h", " ">>
H_EN == <<" ", "E", "N">>
H_term == <<"t", "e", "r", "m">>
H_note == <<"n", "o", "t", "e">>

C_blank == <<" ">>
C_b == <<" ", "b", " ">>

\* full datasets: none, two cases, one case listed in both languages, one
\* case
DatasetSamples ==
    {<<>>,
     <<DataRow(1, S_eng), DataRow(2, S_FRE)>>,
     <<DataRow(1, S_FRE), DataRow(1, S_eng)>>,
     <<DataRow(2, S_eng)>>}

\* law-text tables: none, a text per case, two texts for one case and a
\* missing one for the other
LawSamples ==
    {<<>>,
     <<LawRow(1, T_a_b_a), LawRow(2, T_ab_B)>>,
     <<LawRow(1, T_ab_B), LawRow(1, T_a_b_a), LawRow(2, NaN)>>}

Init ==
    /\ pc = "new"
    /\ df_all \in DatasetSamples
    /\ law \in LawSamples
    /\ \E columns \in {<<H_English, H_French>>, <<H_EN, H_term>>,
                        <<H_term, H_note>>} :
          queries \in QueryTables(columns, {NaN, C_blank, T_a, C_b})
    /\ merged = None
    /\ dataset = None
    /\ NoCall
    /\ NoApp

SearchAllQueries ==
    \E context_words \in {1} : SearchAllQueriesCall(context_words)

Next == Construct \/ SearchAllQueries

Spec == Init /\ [][Next]_vars

(***************************************************************************)
(* The browsing front-end (csv_search_app.py)                              *)
(*                                                                         *)
(* A table is [columns, rows]: the headers, and per row one cell per       *)
(* column: a string, an integer or NaN.  Every event of the page (a file   *)
(* chosen, a path typed, a button pressed, a page size selected) runs the  *)
(* script main() from its first line; st.session_state is what is kept     *)
(* from one run to the next.                                               *)
(***************************************************************************)
\* the column names the script reads
N_itemid == <<"i", "t", "e", "m", "i", "d">>
N_language == <<"l", "a", "n", "g", "u", "a", "g", "e">>
N_languageisocode == <<"l", "a", "n", "g", "u", "a", "g", "e", "i", "s", "o", "c", "o", "d", "e">>
N_year == <<"y", "e", "a", "r">>
N_article == <<"a", "r", "t", "i", "c", "l", "e">>
N_context == <<"c", "o", "n", "t", "e", "x", "t">>
N_THE_LAW == <<"T", "H", "E", "_", "L", "A", "W">>

HasColumn(table, name) == \E i \in 1..Len(table.columns) : table.columns[i] = name

\* str(n) of an integer n >= 0
RECURSIVE IntToStr(_)
IntToStr(n) ==
    IF n < 10 THEN <<Digits[n + 1]>>
    ELSE Append(IntToStr(n \div 10), Digits[(n % 10) + 1])

\* a number of a table: the cells of a table are tuples, as its strings are
Number(n) == <<"int", n>>
IsInt(v) == Len(v) = 2 /\ v[1] = "int"

\* a column read by pandas with a missing cell among its numbers is a
\* column of floats, and stays one in the tables made of the table's rows:
\* a table that was read has the field floats, the names of these columns
IsFloatColumn(table, name) ==
    /\ \E r \in 1..Len(table.rows) : isna(Cell(table, table.rows[r], name))
    /\ \E r \in 1..Len(table.rows) : IsInt(Cell(table, table.rows[r], name))

\* pd.read_csv followed by columns.str.strip()
ReadCsv(file) ==
    LET table == [file EXCEPT !.columns = StripColumns(file.columns)]
    IN  [columns |-> table.columns,
         rows |-> table.rows,
         floats |-> {table.columns[i] : i \in {j \in 1..Len(table.columns) :
                        IsFloatColumn(table, table.columns[j])}}]

\* df[name].astype(str), for the cell of one row
AsStr(table, row, name) ==
    LET v == Cell(table, row, name)
    IN  IF isna(v) THEN <<"n", "a", "n">>
        ELSE IF IsInt(v)
        THEN IF name \in table.floats
             THEN IntToStr(v[2]) \o <<".", "0">>
             ELSE IntToStr(v[2])
        ELSE v

\* sub in s
InString(sub, s) ==
    \E i \in 0..(Len(s) - Len(sub)) : SubSeq(s, i + 1, i + Len(sub)) = sub

\* filter_by_text(df, column_name, search_term, use_regex); the regular
\* expression is the escaped lower-cased term and is matched whatever the
\* case of the letters, the substring is looked for whatever the case
filter_by_text(table, column_name, search_term, use_regex) ==
    IF search_term = <<>> \/ Strip(search_term) = <<>> THEN table
    ELSE IF ~HasColumn(table, column_name) THEN table
    ELSE IF use_regex
    THEN LET Mask(row) == re_search(WordPattern(search_term),
                                    Lower(AsStr(table, row, column_name)))
         IN  [table EXCEPT !.rows = SelectSeq(table.rows, Mask)]
    ELSE LET Mask(row) == InString(Lower(search_term),
                                   Lower(AsStr(table, row, column_name)))
         IN  [table EXCEPT !.rows = SelectSeq(table.rows, Mask)]

L_All == <<"A", "l", "l">>
L_English == <<"E", "n", "g", "l", "i", "s", "h">>
L_French == <<"F", "r", "e", "n", "c", "h">>

\* filter_by_language(df, language)
filter_by_language(table, language) ==
    IF language = L_All THEN table
    ELSE
      LET lang_code == IF language = L_English THEN S_eng
                       ELSE IF language = L_French THEN S_fre
                       ELSE Lower(language)
          column == IF HasColumn(table, N_language) THEN N_language
                    ELSE N_languageisocode
          Mask(row) == Lower(AsStr(table, row, column)) = lang_code
      IN  IF HasColumn(table, column) THEN [table EXCEPT !.rows = SelectSeq(table.rows, Mask)] ELSE table

\* s.split('-')
RECURSIVE SplitAt(_, _)
SplitAt(s, c) ==
    LET at == {i \in 1..Len(s) : s[i] = c}
        first == CHOOSE i \in at : \A j \in at : i <= j
    IN  IF at = {} THEN <<s>>
        ELSE <<SubSeq(s, 1, first - 1)>>
             \o SplitAt(SubSeq(s, first + 1, Len(s)), c)

ValueError == "ValueError"

RECURSIVE DigitsToInt(_)
DigitsToInt(s) ==
    IF s = <<>> THEN 0
    ELSE 10 * DigitsToInt(SubSeq(s, 1, Len(s) - 1))
         + (CHOOSE i \in 1..Len(Digits) : Digits[i] = s[Len(s)]) - 1

\* int(s) of a string of digits; ValueError for another string
ParseInt(s) ==
    IF s # <<>> /\ \A i \in 1..Len(s) : \E d \in 1..Len(Digits) : s[i] = Digits[d]
    THEN Returns(DigitsToInt(s)) ELSE Raises(ValueError)

\* filter_by_year(df, year_input): a range start-end on the numbers of the
\* column, or the input as a regular expression on the column's strings;
\* after an exception the table is returned as it was
filter_by_year(table, year_input) ==
    IF year_input = <<>> \/ Strip(year_input) = <<>> THEN table
    ELSE IF ~HasColumn(table, N_year) THEN table
    ELSE IF InString(<<"-">>, year_input)
    THEN LET parts == SplitAt(year_input, "-")
             start_year == ParseInt(Strip(parts[1]))
             end_year == ParseInt(Strip(parts[2]))
             Mask(row) ==
                 LET year == Cell(table, row, N_year)
                 IN  /\ IsInt(year)
                     /\ year[2] >= start_year.value
                     /\ year[2] <= end_year.value
         IN  IF Len(parts) # 2 THEN table
             ELSE IF \/ start_year.raised = ValueError
                     \/ end_year.raised = ValueError
             THEN table
             ELSE [table EXCEPT !.rows = SelectSeq(table.rows, Mask)]
    ELSE LET Mask(row) == re_search(Strip(year_input),
                                    AsStr(table, row, N_year))
         IN  [table EXCEPT !.rows = SelectSeq(table.rows, Mask)]

\* df.iloc[start_idx:end_idx]
paginate_dataframe(table, page_size, page_num) ==
    [table EXCEPT !.rows =
        SubSeq(table.rows, page_num * page_size + 1,
               Min(Len(table.rows), page_num * page_size + page_size))]

\* the files the user can choose, by name: a table of six rows with padded
\* headers, a table of two rows with the column languageisocode and a
\* missing year, a table without rows, and a file read_csv cannot read

FileA ==
    [columns |-> <<N_itemid, N_language, <<" ">> \o N_year, N_article,
                   N_context \o <<" ">>, N_THE_LAW>>,
     rows |-> << <<Number(1), S_eng, Number(2015), <<"3">>, T_a, T_a_b_a>>,
                 <<Number(2), S_fre, Number(2020), <<"8">>, C_b, T_ab_B>>,
                 <<Number(3), S_eng, Number(2020), <<"3">>, NaN, T_a_b_a>>,
                 <<Number(4), S_FRE, Number(2015), NaN, T_a, NaN>>,
                 <<Number(5), S_eng, Number(2020), <<"8">>, T_a, T_ab_B>>,
                 <<Number(6), S_eng, Number(2015), <<"3">>, C_b, T_a_b_a>> >>]

FileB ==
    [columns |-> <<N_itemid, N_languageisocode, N_year, N_THE_LAW>>,
     rows |-> << <<Number(7), <<"E", "N", "G">>, NaN, T_a_b_a>>,
                 <<Number(8), S_fre, Number(2020), T_ab_B>> >>]

FileC == [columns |-> <<N_itemid, N_THE_LAW>>, rows |-> <<>>]

Files == [A |-> FileA, B |-> FileB, C |-> FileC,
          X |-> [none |-> "unreadable"]]

\* load_csv_file(file_path): (df, error)
load_csv_file(name) ==
    IF Files[name] = Files.X
    THEN [df |-> NoData, error |-> "error"]
    ELSE [df |-> ReadCsv(Files[name]), error |-> None]

\* lines 205-235 of main(): the dataset of this run, None when the run
\* ends before it has one
LoadData(file, path) ==
    IF file # NoFile THEN load_csv_file(file).df
    ELSE IF path # "" THEN
         IF path \in DOMAIN Files THEN load_csv_file(path).df ELSE NoData
    ELSE NoData

Set(session, key, value) ==
    [k \in DOMAIN session \cup {key} |->
        IF k = key THEN value ELSE session[k]]

PageSizeDefault == 25
PageSizes == <<5, 10, 25, 50, 100>>

\* lines 297-302: the keys a first run sets
InitSessionState(session, data) ==
    LET first == IF "filtered_df" \in DOMAIN session THEN session
                 ELSE Set(Set(session, "filtered_df", data), "page_num", 0)
    IN  IF "page_size" \in DOMAIN first THEN first
        ELSE Set(first, "page_size", PageSizeDefault)

\* lines 310-334: the filters of the form, one after the other
ApplyAll(data, form) ==
    LET by_law ==
            IF form.law_search # <<>> /\ HasColumn(data, N_THE_LAW)
            THEN filter_by_text(data, N_THE_LAW, form.law_search, TRUE)
            ELSE data
        by_article ==
            IF form.article_search # <<>> /\ HasColumn(by_law, N_article)
            THEN filter_by_text(by_law, N_article, form.article_search, FALSE)
            ELSE by_law
        by_context ==
            IF form.context_search # <<>> /\ HasColumn(by_article, N_context)
            THEN filter_by_text(by_article, N_context, form.context_search,
                                TRUE)
            ELSE by_article
        by_year ==
            IF form.year_search # <<>>
            THEN filter_by_year(by_context, form.year_search)
            ELSE by_context
    IN  IF form.language_filter # L_All
        THEN filter_by_language(by_year, form.language_filter)
        ELSE by_year

\* (len(results) - 1) // page_size + 1 if len(results) > 0 else 1
TotalPages(results, page_size) ==
    IF Len(results.rows) > 0
    THEN ((Len(results.rows) - 1) \div page_size) + 1 ELSE 1

\* lines 336-456, no button of the page pressed: what the run shows, and
\* the session state it leaves.  page_size is the value of the selector.
\* The match rate is kept as the fraction it is computed from.
Show(session, data, page_size) ==
    LET results == session.filtered_df
        percentage ==
            IF Len(data.rows) > 0
            THEN [num |-> Len(results.rows) * 100, den |-> Len(data.rows)]
            ELSE [num |-> 0, den |-> 1]
        sized == IF Len(results.rows) > 0 /\ page_size # session.page_size
                 THEN Set(Set(session, "page_size", page_size), "page_num", 0)
                 ELSE session
    IN  [session |-> sized,
         screen |->
           [results |-> results,
            total |-> Len(results.rows),
            original |-> Len(data.rows),
            percentage |-> percentage,
            total_pages |-> TotalPages(results, page_size),
            paginated_results |->
                IF Len(results.rows) > 0
                THEN paginate_dataframe(results, page_size, sized.page_num)
                ELSE NoData]]

\* a run of main() in which no button is pressed and the page size selector
\* is as the session state has it
Run(session, data) ==
    IF data = NoData THEN [session |-> session, screen |-> NoScreen]
    ELSE Show(InitSessionState(session, data), data,
              InitSessionState(session, data).page_size)

(***************************************************************************)
(* The events of the page                                                  *)
(***************************************************************************)
\* the page makes no searcher
InitApp ==
    /\ pc = "page"
    /\ NoTables
    /\ NoCall
    /\ NoApp

\* a file is chosen in the uploader, or the chosen file is removed
UploadFile(file) ==
    /\ file # uploaded_file
    /\ uploaded_file' = file
    /\ df' = LoadData(file, manual_path)
    /\ session_state' = Run(session_state, df').session
    /\ screen' = Run(session_state, df').screen
    /\ UNCHANGED <<manual_path, searcher_vars>>

\* a path is typed in the sidebar
EnterPath(path) ==
    /\ path # manual_path
    /\ manual_path' = path
    /\ df' = LoadData(uploaded_file, path)
    /\ session_state' = Run(session_state, df').session
    /\ screen' = Run(session_state, df').screen
    /\ UNCHANGED <<uploaded_file, searcher_vars>>

\* 'Apply Filters' is pressed, the form filled in
ApplyFilters(form) ==
    /\ df # NoData
    /\ session_state' =
          Show(Set(Set(InitSessionState(session_state, df),
                       "filtered_df", ApplyAll(df, form)),
                   "page_num", 0),
               df, InitSessionState(session_state, df).page_size).session
    /\ screen' =
          Show(Set(Set(InitSessionState(session_state, df),
                       "filtered_df", ApplyAll(df, form)),
                   "page_num", 0),
               df, InitSessionState(session_state, df).page_size).screen
    /\ UNCHANGED <<uploaded_file, manual_path, df, searcher_vars>>

\* 'Clear Filters' is pressed: the session state is set and the script is
\* run again
ClearFilters ==
    /\ df # NoData
    /\ session_state' =
          Run(Set(Set(InitSessionState(session_state, df),
                      "filtered_df", df), "page_num", 0), df).session
    /\ screen' =
          Run(Set(Set(InitSessionState(session_state, df),
                      "filtered_df", df), "page_num", 0), df).screen
    /\ UNCHANGED <<uploaded_file, manual_path, df, searcher_vars>>

\* the pagination controls are on the page
Paginated == screen # NoScreen /\ screen.total > 0

\* another page size is selected
SelectPageSize(page_size) ==
    /\ Paginated
    /\ page_size # session_state.page_size
    /\ session_state' =
          Show(InitSessionState(session_state, df), df, page_size).session
    /\ screen' =
          Show(InitSessionState(session_state, df), df, page_size).screen
    /\ UNCHANGED <<uploaded_file, manual_path, df, searcher_vars>>

\* a pagination button is pressed: page_num is set and the script is run
\* again
GoToPage(page_num) ==
    /\ session_state' =
          Run(Set(session_state, "page_num", page_num), df).session
    /\ screen' =
          Run(Set(session_state, "page_num", page_num), df).screen
    /\ UNCHANGED <<uploaded_file, manual_path, df, searcher_vars>>

FirstPage ==
    /\ Paginated
    /\ session_state.page_num # 0
    /\ GoToPage(0)

PrevPage ==
    /\ Paginated
    /\ session_state.page_num # 0
    /\ GoToPage(session_state.page_num - 1)

NextPage ==
    /\ Paginated
    /\ ~(session_state.page_num >= screen.total_pages - 1)
    /\ GoToPage(session_state.page_num + 1)

LastPage ==
    /\ Paginated
    /\ ~(session_state.page_num >= screen.total_pages - 1)
    /\ GoToPage(screen.total_pages - 1)

\* what the user can type in the form: for the year a year, a range, a
\* regular expression, and a range without its end
Forms ==
    [law_search : {<<>>, T_a},
     article_search : {<<>>, <<"3">>},
     context_search : {<<>>, Q_B},
     year_search : {<<>>,
                    <<"2", "0", "2", "0">>,
                    <<"2", "0", "1", "6", "-", "2", "0", "2", "0">>,
                    <<"2", "0", ".", "5">>,
                    <<"2", "0", "1", "6", "-">>},
     language_filter : {L_All, L_English, L_French}]

NextApp ==
    \/ \E file \in (DOMAIN Files) \cup {NoFile} : UploadFile(file)
    \/ \E path \in {"", "A", "missing"} : EnterPath(path)
    \/ \E form \in Forms : ApplyFilters(form)
    \/ ClearFilters
    \/ \E i \in 1..Len(PageSizes) : SelectPageSize(PageSizes[i])
    \/ FirstPage
    \/ PrevPage
    \/ NextPage
    \/ LastPage

SpecApp == InitApp /\ [][NextApp]_vars

(***************************************************************************)
(* Properties: what the statements below are written with                  *)
(***************************************************************************)
\* sub occurs in s
Contains(s, sub) ==
    \E i \in 0..(Len(s) - Len(sub)) : SubSeq(s, i + 1, i + Len(sub)) = sub

\* s.split(sep) for a non-empty sep
RECURSIVE SplitOn(_, _)
SplitOn(s, sep) ==
    LET at == {i \in 0..(Len(s) - Len(sep)) :
                 SubSeq(s, i + 1, i + Len(sep)) = sep}
        first == CHOOSE i \in at : \A j \in at : i <= j
    IN  IF at = {} THEN <<s>>
        ELSE <<SubSeq(s, 1, first)>>
             \o SplitOn(SubSeq(s, first + Len(sep) + 1, Len(s)), sep)

\* term t stands at offset pos of s as a whole word: its characters are
\* there, and a word boundary is on either side
OccursAt(s, t, pos) ==
    /\ pos + Len(t) <= Len(s)
    /\ \A i \in 1..Len(t) : s[pos + i] = t[i]
    /\ WordBoundary(s, pos)
    /\ WordBoundary(s, pos + Len(t))

\* the offsets of the non-overlapping occurrences of t in s from offset pos
\* on, leftmost first (t is not empty)
RECURSIVE OccurrencesFrom(_, _, _)
OccurrencesFrom(s, t, pos) ==
    IF pos > Len(s) THEN <<>>
    ELSE IF OccursAt(s, t, pos)
         THEN <<pos>> \o OccurrencesFrom(s, t, pos + Len(t))
         ELSE OccurrencesFrom(s, t, pos + 1)

\* the occurrences of term in text, whatever the case of the letters
Occurrences(text, term) == OccurrencesFrom(Lower(text), Lower(term), 0)

\* the 0-based index of the whitespace-delimited token of text that holds
\* offset off: the tokens that start at or before off, less one
TokenIndex(text, off) ==
    Cardinality({j \in 0..off :
        /\ j < Len(text)
        /\ ~IsSpace(text[j + 1])
        /\ (j = 0 \/ IsSpace(text[j]))}) - 1

\* the number of the indices of table t that satisfy Test
Count(t, Test(_)) == Cardinality({i \in DOMAIN t : Test(t[i])})

SameIgnoringCase(s, t) ==
    /\ Len(s) = Len(t)
    /\ \A i \in 1..Len(s) : LowerChar(s[i]) = LowerChar(t[i])

\* the query between word boundaries, its groups and quantifiers kept
HonouredPattern(query) == <<"\\", "b">> \o Lower(query) \o <<"\\", "b">>

(***************************************************************************)
(* C1. After construction every row of the corpus has a law text, and its  *)
(* itemid occurs in the full dataset and in the law-text table: an itemid  *)
(* of only one of the two tables is not in the corpus.                     *)
(***************************************************************************)
C1_CorpusHasLawAndBothIds ==
    pc = "constructed" =>
        \A i \in DOMAIN dataset :
            /\ ~isna(dataset[i].THE_LAW)
            /\ \E d \in DOMAIN df_all : df_all[d].itemid = dataset[i].itemid
            /\ \E l \in DOMAIN law : law[l].itemid = dataset[i].itemid

\* a corpus of a row, built of tables in which one case has no law text
\* (its merged row is dropped) and one law text has no case
C1_Witness ==
    /\ pc = "constructed"
    /\ dataset # <<>>
    /\ \E d \in DOMAIN df_all :
         \A l \in DOMAIN law : law[l].itemid # df_all[d].itemid
    /\ \E l \in DOMAIN law :
         \A d \in DOMAIN df_all : law[l].itemid # df_all[d].itemid
    /\ Len(dataset) < Len(merged)

(***************************************************************************)
(* C8. Every row of the full dataset is at most once in the merged table   *)
(* and at most once in the corpus, whatever the law-text table.            *)
(***************************************************************************)
C8_DatasetRowAtMostOnce ==
    pc = "constructed" =>
        \A d \in DOMAIN df_all :
            LET IsThisRow(r) == /\ r.itemid = df_all[d].itemid
                                /\ r.languageisocode = df_all[d].languageisocode
            IN  /\ Count(merged, IsThisRow) <= Count(df_all, IsThisRow)
                /\ Count(dataset, IsThisRow) <= Count(df_all, IsThisRow)

(***************************************************************************)
(* C3. get_context returns the empty string exactly when the term does not *)
(* occur in the text as a whole word; otherwise it returns a string in     *)
(* which a token is wrapped in the emphasis markers.                       *)
(***************************************************************************)
C3_EmptyIffNoMatchElseEmphasis ==
    pc = "get_context" =>
        /\ ret = <<>> <=> Occurrences(args.text, args.query) = <<>>
        /\ ret # <<>> => Contains(ret, Emph)

(***************************************************************************)
(* C4. For every occurrence, the window get_context selects has at most    *)
(* context_words words before the token in which the match starts and at   *)
(* most context_words after it, and fewer only where the window ends at    *)
(* the first or the last word of the text.                                 *)
(***************************************************************************)
C4_WindowWithinRadius ==
    pc = "get_context" =>
        \A i \in DOMAIN locals :
            LET token == TokenIndex(args.text, locals[i].char_pos)
                before == token - locals[i].start_idx
                after == locals[i].end_idx - 1 - token
            IN  ~IsSpace(args.text[locals[i].char_pos + 1]) =>
                  /\ before <= args.context_words
                  /\ after <= args.context_words
                  /\ before < args.context_words => locals[i].start_idx = 0
                  /\ after < args.context_words =>
                        locals[i].end_idx = Len(Split(args.text))

(***************************************************************************)
(* C7. When the term occurs k >= 1 times in the text, get_context returns  *)
(* k contexts joined by " | ": one per occurrence, in the order of the     *)
(* occurrences.                                                            *)
(***************************************************************************)
C7_OneContextPerMatch ==
    pc = "get_context" =>
        LET occurrences == Occurrences(args.text, args.query)
        IN  occurrences # <<>> =>
              /\ Len(locals) = Len(occurrences)
              /\ \A i \in DOMAIN locals : locals[i].char_pos = occurrences[i]
              /\ SplitOn(ret, Separator)
                    = [i \in DOMAIN locals |-> locals[i].context]

\* a text with two occurrences whose contexts differ
C7_Witness ==
    /\ pc = "get_context"
    /\ Len(locals) >= 2
    /\ locals[1].context # locals[2].context
    /\ Len(SplitOn(ret, Separator)) = Len(locals)

(***************************************************************************)
(* C5. The query '(moyens de)? subsistance' is searched as a regular       *)
(* expression with an optional group: search_text returns a record for     *)
(* every French row of the corpus whose text the expression matches, such  *)
(* as a text with the word 'subsistance' and without '(moyens de)?'.       *)
(***************************************************************************)
C5_OptionalGroupHonoured ==
    (pc = "search_text" /\ args.query_word = Q_moyens_de_subsistance) =>
        \A i \in DOMAIN dataset :
            ( /\ Lower(dataset[i].languageisocode) = S_fre
              /\ Occurrences(dataset[i].THE_LAW, W_subsistance) # <<>>
              /\ re_search(HonouredPattern(args.query_word),
                           Lower(dataset[i].THE_LAW)) )
            => \E j \in DOMAIN ret :
                  /\ ret[j].itemid = dataset[i].itemid
                  /\ ret[j].THE_LAW = dataset[i].THE_LAW

(***************************************************************************)
(* C6. With a language filter, search_text returns records of exactly the  *)
(* rows whose language code is the filter, letter case apart, and whose    *)
(* text has the term: none of another language, none left out.             *)
(***************************************************************************)
C6_LanguageFilter ==
    (pc = "search_text" /\ Truthy(args.language_filter)) =>
        LET InLanguage(r) ==
                SameIgnoringCase(r.languageisocode, args.language_filter)
            Wanted(r) ==
                /\ InLanguage(r)
                /\ ~isna(r.THE_LAW)
                /\ Occurrences(r.THE_LAW, args.query_word) # <<>>
        IN  /\ \A j \in DOMAIN ret :
                SameIgnoringCase(ret[j].language, args.language_filter)
            /\ Len(ret) = Count(dataset, Wanted)
            /\ \A i \in DOMAIN dataset :
                 Wanted(dataset[i]) =>
                   \E j \in DOMAIN ret :
                       /\ ret[j].itemid = dataset[i].itemid
                       /\ ret[j].language = dataset[i].languageisocode
                       /\ ret[j].THE_LAW = dataset[i].THE_LAW

\* the filter 'FRE' on a corpus with a matching row stored as 'fre' and a
\* matching row stored as 'eng'
C6_Witness ==
    /\ pc = "search_text"
    /\ args.language_filter = S_FRE
    /\ Len(ret) = 1
    /\ ret[1].language = S_fre
    /\ \E i \in DOMAIN dataset :
         /\ dataset[i].languageisocode = S_eng
         /\ Occurrences(dataset[i].THE_LAW, args.query_word) # <<>>

(***************************************************************************)
(* C2. search_all_queries returns one summary record for each pair         *)
(* (itemid, query_word) of a match record and none for another pair; its   *)
(* match_count is the number of the pair's match records and its           *)
(* combined_context their non-empty contexts joined by " | ".              *)
(***************************************************************************)
C2_OneSummaryPerPair ==
    pc = "search_all_queries" =>
        LET all_results == locals.all_results
            Of(itemid, query_word) ==
                SelectSeq(all_results, LAMBDA r :
                    r.itemid = itemid /\ r.query_word = query_word)
        IN  /\ raised = NoException
            /\ \A i \in DOMAIN all_results :
                 Cardinality({g \in DOMAIN ret :
                     /\ ret[g].itemid = all_results[i].itemid
                     /\ ret[g].query_word = all_results[i].query_word}) = 1
            /\ \A g \in DOMAIN ret :
                 LET group == Of(ret[g].itemid, ret[g].query_word)
                     contexts == [i \in DOMAIN group |-> group[i].context]
                 IN  /\ group # <<>>
                     /\ ret[g].match_count = Len(group)
                     /\ ret[g].combined_context =
                          Join(Separator,
                               SelectSeq(contexts, LAMBDA c : c # <<>>))

\* two summary records, one of them of two match records
C2_Witness ==
    /\ pc = "search_all_queries"
    /\ Len(ret) >= 2
    /\ \E g, h \in DOMAIN ret :
         /\ ret[g].match_count >= 2
         /\ ret[h].itemid = ret[g].itemid
         /\ ret[h].query_word # ret[g].query_word

(***************************************************************************)
(* C9. When no cell of the query table yields a match record, as with an   *)
(* empty query table or an empty corpus, search_all_queries returns the    *)
(* empty result and raises nothing.                                        *)
(***************************************************************************)
C9_NoMatchGivesEmptyResult ==
    pc = "search_all_queries" =>
        /\ locals.all_results = <<>> => (ret = <<>> /\ raised = NoException)
        /\ (queries.rows = <<>> \/ dataset = <<>>) =>
              (ret = <<>> /\ raised = NoException)

\* terms were searched in a corpus of two rows, and none matched
C9_Witness ==
    /\ pc = "search_all_queries"
    /\ locals.all_results = <<>>
    /\ dataset # <<>>
    /\ \E r \in DOMAIN queries.rows :
          Cell(queries, queries.rows[r], locals.query_columns[1]) = T_a
    /\ ret = <<>>

(***************************************************************************)
(* C10. search_all_queries searches the columns of the query table whose   *)
(* header is english, french, en or fr, letter case apart, and every       *)
(* column only when there is no such header.                               *)
(***************************************************************************)
C10_SearchedColumns ==
    pc = "search_all_queries" =>
        LET Known(col) == \E name \in {S_english, S_french, S_en, S_fr} :
                              SameIgnoringCase(col, name)
            known == {i \in DOMAIN queries.columns :
                        Known(queries.columns[i])}
            searched == IF known = {} THEN DOMAIN queries.columns ELSE known
        IN  /\ locals.query_columns
                = SelectSeq(queries.columns, LAMBDA col :
                    \E i \in searched : queries.columns[i] = col)
            /\ \A i \in DOMAIN locals.all_results :
                 \E c \in searched :
                    locals.all_results[i].query_language = queries.columns[c]

\* the headers 'EN' and 'term': the column 'term' holds a term of the
\* corpus, and only 'EN' is searched
C10_Witness ==
    /\ pc = "search_all_queries"
    /\ queries.columns = <<<<"E", "N">>, H_term>>
    /\ locals.query_columns = <<<<"E", "N">>>>
    /\ dataset # <<>>
    /\ \E r \in DOMAIN queries.rows :
          /\ queries.rows[r][2] = T_a
          /\ queries.rows[r][1] = NaN
    /\ ret = <<>>

(***************************************************************************)
(* C11. In search_all_queries a term of a column english/en (letter case   *)
(* apart) is searched in the corpus rows of language 'eng' only, a term of *)
(* a column french/fr in the rows of language 'fre' only, a term of        *)
(* another column in the rows of every language; a missing cell and a cell *)
(* that is empty once trimmed are not searched.  The language codes are    *)
(* compared letter case apart.                                             *)
(***************************************************************************)
C11_ColumnLanguageAndBlankCells ==
    pc = "search_all_queries" =>
        LET all_results == locals.all_results
            English(col) == \/ SameIgnoringCase(col, S_english)
                            \/ SameIgnoringCase(col, S_en)
            French(col) == \/ SameIgnoringCase(col, S_french)
                           \/ SameIgnoringCase(col, S_fr)
            InLanguage(col, row) ==
                /\ English(col) => SameIgnoringCase(row.languageisocode, S_eng)
                /\ French(col) => SameIgnoringCase(row.languageisocode, S_fre)
            Blank(cell) ==
                isna(cell) \/ \A k \in DOMAIN cell : IsSpace(cell[k])
            Term(r, col) == Cell(queries, queries.rows[r], col)
            Found(r, col, d) ==
                /\ ~Blank(Term(r, col))
                /\ InLanguage(col, dataset[d])
                /\ Occurrences(dataset[d].THE_LAW, Strip(Term(r, col))) # <<>>
        IN  /\ \A i \in DOMAIN all_results :
                 \E r \in DOMAIN queries.rows, d \in DOMAIN dataset :
                    /\ Found(r, all_results[i].query_language, d)
                    /\ all_results[i].query_word
                          = Strip(Term(r, all_results[i].query_language))
                    /\ all_results[i].itemid = dataset[d].itemid
                    /\ all_results[i].language = dataset[d].languageisocode
                    /\ all_results[i].THE_LAW = dataset[d].THE_LAW
            /\ Len(all_results)
                 = Cardinality({t \in (DOMAIN queries.rows)
                                      \X (DOMAIN locals.query_columns)
                                      \X (DOMAIN dataset) :
                        Found(t[1], locals.query_columns[t[2]], t[3])})

\* the columns 'English' and 'French' over a corpus with a case in each
\* language: the English term is found in the 'eng' row, the French term in
\* the 'FRE' row, the English term also stands in the French text it is not
\* searched in, and a cell of the table is blank
C11_Witness ==
    /\ pc = "search_all_queries"
    /\ locals.query_columns = <<H_English, Strip(H_French)>>
    /\ \E i, j \in DOMAIN locals.all_results :
         /\ locals.all_results[i].query_language = H_English
         /\ locals.all_results[i].language = S_eng
         /\ locals.all_results[j].query_language = Strip(H_French)
         /\ locals.all_results[j].language = S_FRE
    /\ \E d \in DOMAIN dataset, r \in DOMAIN queries.rows :
         /\ dataset[d].languageisocode = S_FRE
         /\ queries.rows[r][1] # NaN
         /\ Strip(queries.rows[r][1]) # <<>>
         /\ Occurrences(dataset[d].THE_LAW, Strip(queries.rows[r][1])) # <<>>
    /\ \E r \in DOMAIN queries.rows : queries.rows[r][2] = C_blank

(***************************************************************************)
(* C12. search_text returns one match record for each corpus row that      *)
(* passes the language filter, has a text, and whose text has the term as  *)
(* a whole word, letter case apart, and none for another row; the records  *)
(* are in the order of the corpus rows, and each has the row's itemid, the *)
(* row's language code, the term as it was given and the row's full text.  *)
(***************************************************************************)
C12_OneRecordPerMatchingRow ==
    pc = "search_text" =>
        LET Wanted(r) ==
                /\ Truthy(args.language_filter) =>
                      SameIgnoringCase(r.languageisocode, args.language_filter)
                /\ ~isna(r.THE_LAW)
                /\ Occurrences(r.THE_LAW, args.query_word) # <<>>
            wanted == SelectSeq(dataset, Wanted)
        IN  /\ Len(ret) = Len(wanted)
            /\ \A j \in DOMAIN ret :
                 /\ ret[j].itemid = wanted[j].itemid
                 /\ ret[j].language = wanted[j].languageisocode
                 /\ ret[j].query_word = args.query_word
                 /\ ret[j].THE_LAW = wanted[j].THE_LAW

\* the term 'a' without a filter on a corpus of four rows: two records, of
\* the first and the third row, and the rows between and after them have
\* the term's letter only inside a word
C12_Witness ==
    /\ pc = "search_text"
    /\ args.query_word = T_a
    /\ ~Truthy(args.language_filter)
    /\ Len(dataset) = 4
    /\ Len(ret) = 2
    /\ ret[1].language = dataset[1].languageisocode
    /\ ret[2].language = dataset[3].languageisocode
    /\ ret[1].language # ret[2].language
    /\ \A d \in {2, 4} :
         /\ Contains(Lower(dataset[d].THE_LAW), Lower(args.query_word))
         /\ Occurrences(dataset[d].THE_LAW, args.query_word) = <<>>

(***************************************************************************)
(* C13. Every match record of search_text has a context that is not empty: *)
(* when the pattern test of search_text succeeds on a row's text, the      *)
(* get_context call on the same text and term finds a match and returns a  *)
(* string that is not empty, whatever the radius.                          *)
(***************************************************************************)
C13_RecordContextNotEmpty ==
    pc = "search_text" =>
        /\ \A j \in DOMAIN ret :
             /\ ret[j].context # <<>>
             /\ ContextPasses(ret[j].THE_LAW, args.query_word,
                              args.context_words) # <<>>
        /\ \A d \in DOMAIN locals.search_data :
             re_search(WordPattern(args.query_word),
                       Lower(locals.search_data[d].THE_LAW))
               => get_context(locals.search_data[d].THE_LAW, args.query_word,
                              args.context_words) # <<>>

\* the term 'B' with radius 0 on a text that has it as 'B.' after another
\* word: the record's context is made of the other word
C13_Witness ==
    /\ pc = "search_text"
    /\ args.query_word = Q_B
    /\ args.context_words = 0
    /\ \E j \in DOMAIN ret :
         /\ ret[j].THE_LAW = T_ab_B
         /\ ret[j].context = <<"a", "b">> \o Ellipsis

(***************************************************************************)
(* C14. In each context get_context builds for an occurrence, a word of    *)
(* the window is wrapped in '**' exactly when that one whitespace-         *)
(* delimited word has the term as a whole word, letter case apart: the     *)
(* words of other occurrences in the window are marked too, and no token   *)
(* of a term of several tokens is marked unless it has the whole term.     *)
(***************************************************************************)
C14_WordMarkedIffItMatches ==
    pc = "get_context" =>
        \A i \in DOMAIN locals :
            LET words == Split(args.text)
                window == SubSeq(words, locals[i].start_idx + 1,
                                 locals[i].end_idx)
                Marked(word) ==
                    IF Occurrences(word, args.query) # <<>>
                    THEN Emph \o word \o Emph ELSE word
                body == Join(<<" ">>,
                             [k \in DOMAIN window |-> Marked(window[k])])
            IN  \E pre \in {<<>>, Ellipsis}, post \in {<<>>, Ellipsis} :
                    locals[i].context = pre \o body \o post

\* 'a . A' with the term 'a' and radius 1: the window of the second
\* occurrence holds the first occurrence too, both are marked and the word
\* between them is not
C14_Witness ==
    /\ pc = "get_context"
    /\ Len(locals) = 2
    /\ locals[2].context =
          Emph \o <<"a">> \o Emph \o <<" ", ".", " ">> \o Emph \o <<"A">> \o Emph

\* s begins with t, s ends with t
StartsWith(s, t) == Len(s) >= Len(t) /\ SubSeq(s, 1, Len(t)) = t
EndsWith(s, t) ==
    Len(s) >= Len(t) /\ SubSeq(s, Len(s) - Len(t) + 1, Len(s)) = t

\* the strings made of the words joined by single spaces, each word as it
\* is or between emphasis markers
Bodies(words) ==
    {Join(<<" ">>, [k \in DOMAIN words |->
                       IF marked[k] THEN Emph \o words[k] \o Emph
                       ELSE words[k]]) :
        marked \in [DOMAIN words -> BOOLEAN]}

(***************************************************************************)
(* C15 as stated.  Each context get_context builds for an occurrence       *)
(* begins with '...' exactly when its window does not start at word 0 of   *)
(* the text and ends with '...' exactly when its window does not hold the  *)
(* last word of the text; with a radius of at least the number of words of *)
(* the text no ellipsis is added, and 'a b c match d e' with the term      *)
(* 'match' and radius 10 gives 'a b c **match** d e'.                      *)
(***************************************************************************)
C15_EllipsisIffWindowCut ==
    pc = "get_context" =>
        LET words == Split(args.text)
        IN  /\ \A i \in DOMAIN locals :
                 /\ StartsWith(locals[i].context, Ellipsis)
                       <=> locals[i].start_idx > 0
                 /\ EndsWith(locals[i].context, Ellipsis)
                       <=> locals[i].end_idx < Len(words)
                 /\ args.context_words >= Len(words) =>
                       locals[i].context \in Bodies(words)
            /\ ( /\ args.text = T_a_b_c_match_d_e
                 /\ args.query = W_match
                 /\ args.context_words = ContextWordsDefault )
               => ret = <<"a", " ", "b", " ", "c", " ">>
                           \o Emph \o W_match \o Emph
                           \o <<" ", "d", " ", "e">>

(***************************************************************************)
(* C15 as amended.  Each context is the words of its window joined by      *)
(* spaces, with '...' put before them exactly when the window does not     *)
(* start at word 0 of the text and '...' put after them exactly when the   *)
(* window does not hold the last word of the text; with a radius of at     *)
(* least the number of words of the text no ellipsis is put, and           *)
(* 'a b c match d e' with the term 'match' and radius 10 gives             *)
(* 'a b c **match** d e'.                                                  *)
(***************************************************************************)
C15_EllipsisPutIffWindowCut ==
    pc = "get_context" =>
        LET words == Split(args.text)
        IN  /\ \A i \in DOMAIN locals :
                 LET window == SubSeq(words, locals[i].start_idx + 1,
                                      locals[i].end_idx)
                     pre == IF locals[i].start_idx > 0
                            THEN Ellipsis ELSE <<>>
                     post == IF locals[i].end_idx < Len(words)
                             THEN Ellipsis ELSE <<>>
                 IN  /\ \E body \in Bodies(window) :
                          locals[i].context = pre \o body \o post
                     /\ args.context_words >= Len(words) =>
                          locals[i].context \in Bodies(words)
            /\ ( /\ args.text = T_a_b_c_match_d_e
                 /\ args.query = W_match
                 /\ args.context_words = ContextWordsDefault )
               => ret = <<"a", " ", "b", " ", "c", " ">>
                           \o Emph \o W_match \o Emph
                           \o <<" ", "d", " ", "e">>

\* 'a a a' with the term 'a' and radius 0: the window of the last
\* occurrence is the middle word, with an ellipsis on either side
C15_Witness ==
    /\ pc = "get_context"
    /\ \E i \in DOMAIN locals :
         /\ locals[i].start_idx > 0
         /\ locals[i].end_idx < Len(Split(args.text))
         /\ locals[i].context = Ellipsis \o Emph \o <<"a">> \o Emph \o Ellipsis

(***************************************************************************)
(* C16. The match records are collected by query-table row, then by        *)
(* searched column, then by corpus row, and the language, query_language   *)
(* and full text of each summary record of search_all_queries are those of *)
(* the first collected match record of its (itemid, query_word) group.     *)
(***************************************************************************)
C16_SummaryOfFirstRecord ==
    pc = "search_all_queries" =>
        LET all_results == locals.all_results
            cols == locals.query_columns
            nc == Len(cols)
            nd == Len(dataset)
            \* the n-th (query row, column, corpus row), rows outermost
            Triple(n) == [r |-> ((n - 1) \div (nc * nd)) + 1,
                          c |-> (((n - 1) \div nd) % nc) + 1,
                          d |-> ((n - 1) % nd) + 1]
            Term(t) == Cell(queries, queries.rows[t.r], cols[t.c])
            InLanguage(t) ==
                LET code == Lower(dataset[t.d].languageisocode)
                    col == Lower(cols[t.c])
                IN  /\ col \in {S_english, S_en} => code = S_eng
                    /\ col \in {S_french, S_fr} => code = S_fre
            Found(t) ==
                /\ ~isna(Term(t))
                /\ Strip(Term(t)) # <<>>
                /\ InLanguage(t)
                /\ Occurrences(dataset[t.d].THE_LAW, Strip(Term(t))) # <<>>
            collected ==
                SelectSeq([n \in 1..(Len(queries.rows) * nc * nd) |-> Triple(n)],
                          Found)
            FirstOf(g) ==
                CHOOSE i \in DOMAIN all_results :
                    /\ all_results[i].itemid = ret[g].itemid
                    /\ all_results[i].query_word = ret[g].query_word
                    /\ \A j \in 1..(i - 1) :
                          \/ all_results[j].itemid # ret[g].itemid
                          \/ all_results[j].query_word # ret[g].query_word
        IN  /\ Len(all_results) = Len(collected)
            /\ \A i \in DOMAIN all_results :
                 /\ all_results[i].query_word = Strip(Term(collected[i]))
                 /\ all_results[i].query_language = cols[collected[i].c]
                 /\ all_results[i].itemid = dataset[collected[i].d].itemid
                 /\ all_results[i].language
                       = dataset[collected[i].d].languageisocode
                 /\ all_results[i].THE_LAW = dataset[collected[i].d].THE_LAW
            /\ \A g \in DOMAIN ret :
                 /\ ret[g].language = all_results[FirstOf(g)].language
                 /\ ret[g].query_language
                       = all_results[FirstOf(g)].query_language
                 /\ ret[g].THE_LAW = all_results[FirstOf(g)].THE_LAW

\* a group whose last record differs from its first in language, column
\* and text: the summary has those of the first
C16_Witness ==
    /\ pc = "search_all_queries"
    /\ \E g \in DOMAIN ret, i, j \in DOMAIN locals.all_results :
         /\ i < j
         /\ locals.all_results[i].itemid = ret[g].itemid
         /\ locals.all_results[j].itemid = ret[g].itemid
         /\ locals.all_results[i].query_word = ret[g].query_word
         /\ locals.all_results[j].query_word = ret[g].query_word
         /\ locals.all_results[i].language # locals.all_results[j].language
         /\ locals.all_results[i].query_language
               # locals.all_results[j].query_language
         /\ locals.all_results[i].THE_LAW # locals.all_results[j].THE_LAW
         /\ ret[g].language = locals.all_results[i].language
         /\ ret[g].query_language = locals.all_results[i].query_language
         /\ ret[g].THE_LAW = locals.all_results[i].THE_LAW

RowsWithin(t, u) ==
    /\ t.columns = u.columns
    /\ \A i \in DOMAIN t.rows : \E j \in DOMAIN u.rows : t.rows[i] = u.rows[j]

(***************************************************************************)
(* C18. In the browsing page, after every sequence of events (a file       *)
(* loaded, another file loaded, the filters applied or cleared, the page   *)
(* size changed, First, Prev, Next, Last), the result set held in the      *)
(* session state and shown is made of rows of the dataset that is loaded,  *)
(* and the match rate shown, len(results) / len(df), is at most 100%.      *)
(***************************************************************************)
C18_ResultsWithinLoadedDataset ==
    screen # NoScreen =>
        /\ screen.results = session_state.filtered_df
        /\ RowsWithin(session_state.filtered_df, df)
        /\ screen.percentage.num <= 100 * screen.percentage.den

=============================================================================
